---- MODULE Spec2Model ----
(***************************************************************************)
(* Request-admission pipeline of the workout API: API-key validation       *)
(* (cache then database), the database-backed rate limiter and the data    *)
(* endpoints that compose them.                                            *)
(*                                                                         *)
(* Three specifications share the variables:                               *)
(*   Spec      key store, validation cache, validateKey / revokeKey /      *)
(*             regenerateKey / key creation and the subscription webhooks; *)
(*             validateKey and revokeKey advance one await at a time.      *)
(*   SeqSpec   the data endpoints handling one request after another.      *)
(*   RaceSpec  concurrent checkRateLimit calls of one tenant, one database *)
(*             round trip per step.                                        *)
(* Time is a tick counter; window lengths and tier quotas are scaled down. *)
(***************************************************************************)
EXTENDS Integers, Sequences, FiniteSets, TLC

VARIABLES
    now,            \* the clock, in ticks
    api_keys,       \* table api_keys: sequence of rows, id = index
    subscriptions,  \* table subscriptions: sequence of rows, id = index
    cache,          \* the validation cache: prefix -> <<>> or <<entry>>
    v,              \* validateKey calls in flight, one slot per caller
    rv,             \* the revokeKey call in flight
    revokeReturned, \* ids of the keys whose revocation has returned
    rate_limits,    \* table rate_limits: set of rows
    logged,         \* the rows the latest request appended to api_usage
    resp,           \* the response of the latest data-API request
    rl,             \* the rate-limit decision of the latest request, if it made one
    win,            \* the tenant's current per-minute window and what was observed in it
    rc,             \* checkRateLimit calls in flight (RaceSpec)
    workouts,       \* table workouts: set of rows
    wcache,         \* the cache entries of WorkoutService: key -> <<>> or <<entry>>
    wq,             \* the latest WorkoutService / getOrSet call and what it returned
    hp,             \* the option bags hashParams was last applied to, with the keys it returned
    kq              \* the create-key requests between their quota check and their insert

vars == <<now, api_keys, subscriptions, cache, v, rv, revokeReturned,
          rate_limits, logged, resp, rl, win, rc, workouts, wcache, wq, hp, kq>>

keyVars == <<api_keys, subscriptions, cache, v, rv, revokeReturned>>
rlVars  == <<rate_limits, logged, resp, rl, win, rc>>
catVars == <<workouts, wcache, wq, hp, kq>>

-----------------------------------------------------------------------------
(* Bounds *)

MaxTime == 2          \* the clock of Spec stops here
MaxKeys == 2          \* rows of api_keys in Spec

(* Scaled durations, in ticks *)
CacheTtlApiKey == 2   \* CACHE_TTL.API_KEY (5 minutes)
GraceTicks == 1       \* the 24 hours regenerateKey adds to the old key

-----------------------------------------------------------------------------
(* Tier configuration.  perMinute and monthly are scaled; maxApiKeys and  *)
(* the -1 sentinel are the program's.                                      *)

FreePerMinute == 2
FreeMonthly == 3
ProPerMinute == 3
ProMonthly == 5
EntPerMinute == 3

TIER_LIMITS ==
    [free       |-> [perMinute |-> FreePerMinute, monthly |-> FreeMonthly, maxApiKeys |-> 1],
     pro        |-> [perMinute |-> ProPerMinute,  monthly |-> ProMonthly,  maxApiKeys |-> 3],
     enterprise |-> [perMinute |-> EntPerMinute,  monthly |-> -1,          maxApiKeys |-> 10]]

-----------------------------------------------------------------------------
(* API keys.  A key string is wa_<env>_<32 hex>; its first 12 characters   *)
(* (wa_<env>_ and 4 hex digits) are the lookup prefix, the rest is the     *)
(* tail.  format is "wa_" for a string that starts with wa_.               *)

Prefixes == {"wa_test_aaaa", "wa_test_bbbb"}
Tails == {"t1", "t2"}
Users == {1}

\* Three key strings: two that share their first 12 characters, one apart.
WellFormed ==
    {s \in [format : {"wa_"}, prefix : Prefixes, tail : Tails] :
        s.prefix = "wa_test_aaaa" \/ s.tail = "t1"}
Presented == WellFormed \cup {[format |-> "none", prefix |-> "", tail |-> ""]}

\* apiKey.substring(0, 12)
substring12(apiKey) == apiKey.prefix

\* bcrypt.hash / bcrypt.compare: the hash verifies exactly the string hashed
bcryptHash(apiKey) == [of |-> apiKey]
bcryptCompare(apiKey, hash) == hash.of = apiKey

\* CacheService.generateKey('apikey', prefix)
cacheKeyOf(prefix) == prefix

\* CacheService.get: a value set with { ex: ttl } is gone once ttl has passed
CacheGet(c, key, t) ==
    IF c[key] # <<>> /\ t < c[key][1].expiresAt THEN <<c[key][1].value>> ELSE <<>>

\* CacheService.set
CacheSet(c, key, value, ttl, t) ==
    [c EXCEPT ![key] = <<[value |-> value, expiresAt |-> t + ttl]>>]

\* CacheService.del
CacheDel(c, key) == [c EXCEPT ![key] = <<>>]

KeyIds == DOMAIN api_keys
SubIds == DOMAIN subscriptions

\* .eq('key_prefix', prefix).eq('is_active', true)
ActiveByPrefix(prefix) ==
    {k \in KeyIds : api_keys[k].key_prefix = prefix /\ api_keys[k].is_active}

\* expires_at && new Date(expires_at) < new Date()
Expired(row, t) == row.expires_at # <<>> /\ row.expires_at[1] < t

Fail(msg) == [valid |-> FALSE, error |-> msg]

\* Mutant of validateAgainstDb: the secret is compared before the expiry is
\* looked at
validateAgainstDbHashFirst(apiKey, t) ==
    LET found == ActiveByPrefix(substring12(apiKey)) IN
    IF Cardinality(found) # 1 THEN Fail("API key not found")
    ELSE LET k == CHOOSE x \in found : TRUE
             keyData == api_keys[k]
             subscription == subscriptions[keyData.subscription_id]
         IN  IF ~bcryptCompare(apiKey, keyData.key_hash) THEN Fail("Invalid API key")
             ELSE IF Expired(keyData, t) THEN Fail("API key expired")
             ELSE IF subscription.status \notin {"active", "trialing"}
                  THEN Fail("Subscription inactive")
             ELSE [valid |-> TRUE, keyId |-> k, userId |-> keyData.user_id,
                   tier |-> subscription.tier]

\* The checks of validateKey after its query, on the rows the query saw.
\* .single() yields an error unless exactly one row matches.
validateAgainstDb(apiKey, t) ==
    LET found == ActiveByPrefix(substring12(apiKey)) IN
    IF Cardinality(found) # 1 THEN Fail("API key not found")
    ELSE LET k == CHOOSE x \in found : TRUE
             keyData == api_keys[k]
             subscription == subscriptions[keyData.subscription_id]
         IN  IF Expired(keyData, t) THEN Fail("API key expired")
             ELSE IF ~bcryptCompare(apiKey, keyData.key_hash) THEN Fail("Invalid API key")
             ELSE IF subscription.status \notin {"active", "trialing"}
                  THEN Fail("Subscription inactive")
             ELSE [valid |-> TRUE, keyId |-> k, userId |-> keyData.user_id,
                   tier |-> subscription.tier]

\* validateKey, database variant: format check, one query, the checks
validateKeyDb(apiKey, t) ==
    IF apiKey.format # "wa_" THEN Fail("Invalid API key format")
    ELSE validateAgainstDb(apiKey, t)

-----------------------------------------------------------------------------
(* What the claims call a key in good standing: the presented string is    *)
(* the secret of a row that is active, not expired and attached to an      *)
(* active or trialing subscription.                                        *)

RowsOf(apiKey) == {k \in KeyIds : bcryptCompare(apiKey, api_keys[k].key_hash)}

GoodRow(k, t) ==
    /\ api_keys[k].is_active
    /\ ~Expired(api_keys[k], t)
    /\ subscriptions[api_keys[k].subscription_id].status \in {"active", "trialing"}

InGoodStanding(apiKey) == \E k \in RowsOf(apiKey) : GoodRow(k, now)

Idle == [pc |-> "idle"]

-----------------------------------------------------------------------------
(* The rate limiter.  A rate_limits row is identified by                   *)
(* (api_key_id, limit_type, window_start), which the table keeps unique.   *)

WindowMinute == 1     \* 60 seconds, in ticks
WindowMonth == 4      \* 30 * 24 * 60 * 60 seconds, in ticks
MonthLen == 4         \* a calendar month, in ticks; months start at multiples

SameRow(r, q) ==
    /\ r.api_key_id = q.api_key_id
    /\ r.limit_type = q.limit_type
    /\ r.window_start = q.window_start

\* Mutant of liveRows: the window filter is missing
liveRowsAnyWindow(rows, keyId, limitType, windowSeconds, t) ==
    {r \in rows : r.api_key_id = keyId /\ r.limit_type = limitType}

\* .eq('api_key_id', keyId).eq('limit_type', limitType)
\* .gte('window_start', now - windowSeconds)
liveRows(rows, keyId, limitType, windowSeconds, t) ==
    {r \in rows : /\ r.api_key_id = keyId
                  /\ r.limit_type = limitType
                  /\ r.window_start >= t - windowSeconds}

\* .maybeSingle(): the row when exactly one matches; no data when none
\* matches, and no data (an error the caller ignores) when several do
maybeSingle(found) ==
    IF Cardinality(found) = 1 THEN <<CHOOSE r \in found : TRUE>> ELSE <<>>

\* checkLimit, its query
selectLimit(rows, keyId, limitType, windowSeconds, t) ==
    maybeSingle(liveRows(rows, keyId, limitType, windowSeconds, t))

\* insert: refused by the unique constraint when the row exists
InsertRow(rows, row) ==
    IF \E r \in rows : SameRow(r, row) THEN rows ELSE rows \cup {row}

\* update ... .eq('id', limitData.id)
UpdateCount(rows, limitData, count) ==
    {IF SameRow(r, limitData) THEN [r EXCEPT !.request_count = count] ELSE r : r \in rows}

\* Mutant of AtLimit: > for >=
AtLimitOffByOne(count, maxRequests) == count > maxRequests

\* request_count >= maxRequests
AtLimit(count, maxRequests) == count >= maxRequests

\* checkLimit after its query returned limitData, at the time t the call
\* took as now: the table it leaves and the result it returns
applyLimit(rows, limitData, keyId, limitType, maxRequests, windowSeconds, t) ==
    IF limitData = <<>>
    THEN [rows |-> InsertRow(rows, [api_key_id |-> keyId, limit_type |-> limitType,
                                    window_start |-> t, request_count |-> 1]),
          result |-> [allowed |-> TRUE, remaining |-> maxRequests - 1,
                      resetAt |-> t + windowSeconds]]
    ELSE IF AtLimit(limitData[1].request_count, maxRequests)
    THEN [rows |-> rows,
          result |-> [allowed |-> FALSE, remaining |-> 0,
                      resetAt |-> limitData[1].window_start + windowSeconds,
                      limitType |-> limitType]]
    ELSE [rows |-> UpdateCount(rows, limitData[1], limitData[1].request_count + 1),
          result |-> [allowed |-> TRUE,
                      remaining |-> maxRequests - (limitData[1].request_count + 1),
                      resetAt |-> limitData[1].window_start + windowSeconds]]

\* RateLimitService.checkLimit, query and write together
checkLimit(rows, keyId, limitType, maxRequests, windowSeconds, t) ==
    applyLimit(rows, selectLimit(rows, keyId, limitType, windowSeconds, t),
               keyId, limitType, maxRequests, windowSeconds, t)

\* Mutant of MonthlyChecked: the -1 sentinel is not recognised
MonthlyAlwaysChecked(limits) == TRUE

\* limits.monthly !== -1
MonthlyChecked(limits) == limits.monthly # -1

\* What checkRateLimit returns when no check denied
Admitted(limits, minuteCheck) ==
    [allowed |-> TRUE, remaining |-> minuteCheck.remaining,
     limit |-> limits.perMinute, resetAt |-> minuteCheck.resetAt]

\* Mutant of checkRateLimit: the monthly check runs before the per-minute
\* check
checkRateLimitMonthlyFirst(rows, keyId, tier, t) ==
    LET limits == TIER_LIMITS[tier]
        monthly == IF MonthlyChecked(limits)
                   THEN checkLimit(rows, keyId, "monthly", limits.monthly, WindowMonth, t)
                   ELSE [rows |-> rows, result |-> [allowed |-> TRUE]]
        minute == checkLimit(monthly.rows, keyId, "per_minute", limits.perMinute,
                             WindowMinute, t)
    IN  IF ~monthly.result.allowed THEN monthly
        ELSE IF ~minute.result.allowed THEN minute
        ELSE [rows |-> minute.rows, result |-> Admitted(limits, minute.result)]

\* RateLimitService.checkRateLimit: the per-minute check, then the monthly
\* check when the tier has a monthly cap
checkRateLimit(rows, keyId, tier, t) ==
    LET limits == TIER_LIMITS[tier]
        minute == checkLimit(rows, keyId, "per_minute", limits.perMinute, WindowMinute, t)
    IN  IF ~minute.result.allowed THEN minute
        ELSE IF MonthlyChecked(limits)
        THEN LET monthly == checkLimit(minute.rows, keyId, "monthly", limits.monthly,
                                       WindowMonth, t)
             IN  IF ~monthly.result.allowed THEN monthly
                 ELSE [rows |-> monthly.rows, result |-> Admitted(limits, minute.result)]
        ELSE [rows |-> minute.rows, result |-> Admitted(limits, minute.result)]

-----------------------------------------------------------------------------
(* Spec: the key store and the validator *)

Callers == {"c1"}

\* The webhook events carry the payment provider's subscription id.
RazorpayIds == {"sub_rzp_1"}

InitKeys ==
    /\ api_keys = <<>>
    /\ subscriptions =
         << [user_id |-> 1, tier |-> "pro", status |-> "active",
             stripe_subscription_id |-> <<"sub_rzp_1">>] >>
    /\ cache = [p \in Prefixes |-> <<>>]
    /\ v = [c \in Callers |-> Idle]
    /\ rv = Idle
    /\ revokeReturned = {}

InitRl ==
    /\ rate_limits = {}
    /\ logged = <<>>
    /\ resp = Idle
    /\ rl = Idle
    /\ rc = <<>>

\* The catalogue and its cache, where they play no part
NoCatalog ==
    /\ workouts = {}
    /\ wcache = <<>>
    /\ wq = Idle
    /\ hp = Idle
    /\ kq = {}

Init == now = 0 /\ InitKeys /\ InitRl /\ win = <<>> /\ NoCatalog

\* crypto.randomBytes(16): any string; two keys never get the same 32 hex
\* digits, but nothing keeps their first four apart.
FreshSecrets == {s \in WellFormed : \A k \in KeyIds : ~bcryptCompare(s, api_keys[k].key_hash)}

\* ApiKeyService.generateKey: the row it inserts
generateKey(userId, subscriptionId, apiKey) ==
    [user_id |-> userId, subscription_id |-> subscriptionId,
     key_hash |-> bcryptHash(apiKey), key_prefix |-> substring12(apiKey),
     is_active |-> TRUE, expires_at |-> <<>>]

\* SubscriptionService.getUserSubscription: the user's latest row
getUserSubscription(userId) ==
    LET mine == {s \in SubIds : subscriptions[s].user_id = userId} IN
    IF mine = {} THEN <<>> ELSE <<CHOOSE s \in mine : \A o \in mine : o <= s>>

\* ApiKeyService.getKeyCount
getKeyCount(userId) ==
    Cardinality({k \in KeyIds : api_keys[k].user_id = userId /\ api_keys[k].is_active})

\* POST (create API key): refused with 403 at the tier's quota
CreateApiKey(userId, apiKey) ==
    /\ Len(api_keys) < MaxKeys
    /\ apiKey \in FreshSecrets
    /\ getUserSubscription(userId) # <<>>
    /\ LET sub == getUserSubscription(userId)[1] IN
       /\ getKeyCount(userId) < TIER_LIMITS[subscriptions[sub].tier].maxApiKeys
       /\ api_keys' = Append(api_keys, generateKey(userId, sub, apiKey))
    /\ UNCHANGED <<now, subscriptions, cache, v, rv, revokeReturned>>
    /\ UNCHANGED rlVars
    /\ UNCHANGED catVars

\* ApiKeyService.regenerateKey: the old key gets an expiry, its cached
\* validation is dropped, a new key is inserted
RegenerateKey(keyId, userId, apiKey) ==
    /\ Len(api_keys) < MaxKeys
    /\ apiKey \in FreshSecrets
    /\ keyId \in KeyIds
    /\ api_keys[keyId].user_id = userId
    /\ api_keys' = Append(
         [api_keys EXCEPT ![keyId].expires_at = <<now + GraceTicks>>],
         generateKey(userId, api_keys[keyId].subscription_id, apiKey))
    /\ cache' = CacheDel(cache, cacheKeyOf(api_keys[keyId].key_prefix))
    /\ UNCHANGED <<now, subscriptions, v, rv, revokeReturned>>
    /\ UNCHANGED rlVars
    /\ UNCHANGED catVars

\* ApiKeyService.revokeKey, up to and including its update: the prefix is
\* read and the row deactivated, both filtered by id and user
RevokeUpdate(keyId, userId) ==
    /\ rv.pc = "idle"
    /\ keyId \in KeyIds
    /\ LET mine == api_keys[keyId].user_id = userId IN
       /\ rv' = [pc |-> "invalidate", keyId |-> keyId,
                 keyData |-> IF mine THEN <<api_keys[keyId].key_prefix>> ELSE <<>>]
       /\ api_keys' = IF mine THEN [api_keys EXCEPT ![keyId].is_active = FALSE]
                      ELSE api_keys
    /\ UNCHANGED <<now, subscriptions, cache, v, revokeReturned>>
    /\ UNCHANGED rlVars
    /\ UNCHANGED catVars

\* revokeKey, the rest: the cached validation of the prefix is deleted and
\* the call returns
RevokeInvalidate ==
    /\ rv.pc = "invalidate"
    /\ cache' = IF rv.keyData # <<>> THEN CacheDel(cache, cacheKeyOf(rv.keyData[1]))
                ELSE cache
    /\ revokeReturned' = IF rv.keyData # <<>> THEN revokeReturned \cup {rv.keyId}
                         ELSE revokeReturned
    /\ rv' = Idle
    /\ UNCHANGED <<now, api_keys, subscriptions, v>>
    /\ UNCHANGED rlVars
    /\ UNCHANGED catVars

\* .update(...).eq('stripe_subscription_id', id)
SetStatus(razorpayId, status) ==
    [s \in SubIds |->
        IF subscriptions[s].stripe_subscription_id = <<razorpayId>>
        THEN [subscriptions[s] EXCEPT !.status = status]
        ELSE subscriptions[s]]

\* SubscriptionService.handlePaymentFailed
HandlePaymentFailed(razorpayId) ==
    /\ subscriptions' = SetStatus(razorpayId, "past_due")
    /\ subscriptions' # subscriptions
    /\ UNCHANGED <<now, api_keys, cache, v, rv, revokeReturned>>
    /\ UNCHANGED rlVars
    /\ UNCHANGED catVars

\* SubscriptionService.handleSubscriptionCancelled: the subscription is
\* canceled and its keys are deactivated
HandleSubscriptionCancelled(razorpayId) ==
    /\ subscriptions' = SetStatus(razorpayId, "canceled")
    /\ LET sub == {s \in SubIds : subscriptions[s].stripe_subscription_id = <<razorpayId>>} IN
       api_keys' = [k \in KeyIds |->
                      IF api_keys[k].subscription_id \in sub
                      THEN [api_keys[k] EXCEPT !.is_active = FALSE]
                      ELSE api_keys[k]]
    /\ <<subscriptions', api_keys'>> # <<subscriptions, api_keys>>
    /\ UNCHANGED <<now, cache, v, rv, revokeReturned>>
    /\ UNCHANGED rlVars
    /\ UNCHANGED catVars

\* SubscriptionService.handleSubscriptionResumed
HandleSubscriptionResumed(razorpayId) ==
    /\ subscriptions' = SetStatus(razorpayId, "active")
    /\ subscriptions' # subscriptions
    /\ UNCHANGED <<now, api_keys, cache, v, rv, revokeReturned>>
    /\ UNCHANGED rlVars
    /\ UNCHANGED catVars

\* SubscriptionService.handleSubscriptionCharged: the subscription the
\* payment belongs to becomes active
HandleSubscriptionCharged(razorpayId) ==
    /\ subscriptions' = SetStatus(razorpayId, "active")
    /\ subscriptions' # subscriptions
    /\ UNCHANGED <<now, api_keys, cache, v, rv, revokeReturned>>
    /\ UNCHANGED rlVars
    /\ UNCHANGED catVars

Tick ==
    /\ now < MaxTime
    /\ now' = now + 1
    /\ UNCHANGED keyVars
    /\ UNCHANGED rlVars
    /\ UNCHANGED catVars

\* A finished call, with what the key's standing was while it ran:
\* any = in good standing at one of the call's steps, all = at each of them
Done(apiKey, result, any, all, after) ==
    [pc |-> "done", apiKey |-> apiKey, result |-> result, any |-> any, all |-> all,
     afterRevoke |-> after]

\* validateKey, cached variant, up to its database query: the format check
\* and the cache lookup; a cached valid result is returned as it is
ValidateStart(c, apiKey) ==
    /\ v[c].pc \in {"idle", "done"}
    /\ LET good == InGoodStanding(apiKey)
           after == \E k \in revokeReturned : k \in RowsOf(apiKey)
           cached == CacheGet(cache, cacheKeyOf(substring12(apiKey)), now)
       IN  v' = [v EXCEPT ![c] =
                 IF apiKey.format # "wa_"
                 THEN Done(apiKey, Fail("Invalid API key format"), good, good, after)
                 ELSE IF cached # <<>> /\ cached[1].valid
                 THEN Done(apiKey, cached[1], good, good, after)
                 ELSE [pc |-> "query", apiKey |-> apiKey, any |-> good, all |-> good,
                       afterRevoke |-> after]]
    /\ UNCHANGED <<now, api_keys, subscriptions, cache, rv, revokeReturned>>
    /\ UNCHANGED rlVars
    /\ UNCHANGED catVars

\* validateKey: the query and the checks on its row
ValidateQuery(c) ==
    /\ v[c].pc = "query"
    /\ LET good == InGoodStanding(v[c].apiKey)
           result == validateAgainstDb(v[c].apiKey, now)
       IN  v' = [v EXCEPT ![c] =
                 IF result.valid
                 THEN [pc |-> "set", apiKey |-> v[c].apiKey, result |-> result,
                       any |-> v[c].any \/ good, all |-> v[c].all /\ good,
                       afterRevoke |-> v[c].afterRevoke]
                 ELSE Done(v[c].apiKey, result, v[c].any \/ good, v[c].all /\ good,
                           v[c].afterRevoke)]
    /\ UNCHANGED <<now, api_keys, subscriptions, cache, rv, revokeReturned>>
    /\ UNCHANGED rlVars
    /\ UNCHANGED catVars

\* validateKey: the successful validation is cached and returned
ValidateCacheSet(c) ==
    /\ v[c].pc = "set"
    /\ LET good == InGoodStanding(v[c].apiKey) IN
       v' = [v EXCEPT ![c] = Done(v[c].apiKey, v[c].result, v[c].any \/ good,
                                  v[c].all /\ good, v[c].afterRevoke)]
    /\ cache' = CacheSet(cache, cacheKeyOf(substring12(v[c].apiKey)), v[c].result,
                         CacheTtlApiKey, now)
    /\ UNCHANGED <<now, api_keys, subscriptions, rv, revokeReturned>>
    /\ UNCHANGED rlVars
    /\ UNCHANGED catVars

\* validateKey, database variant, as one step
ValidateDb(c, apiKey) ==
    /\ v[c].pc \in {"idle", "done"}
    /\ LET good == InGoodStanding(apiKey) IN
       v' = [v EXCEPT ![c] = Done(apiKey, validateKeyDb(apiKey, now), good, good,
                                  \E k \in revokeReturned : k \in RowsOf(apiKey))]
    /\ UNCHANGED <<now, api_keys, subscriptions, cache, rv, revokeReturned>>
    /\ UNCHANGED rlVars
    /\ UNCHANGED catVars

Next ==
    \/ Tick
    \/ \E u \in Users, s \in WellFormed : CreateApiKey(u, s)
    \/ \E k \in KeyIds, u \in Users, s \in WellFormed : RegenerateKey(k, u, s)
    \/ \E k \in KeyIds, u \in Users : RevokeUpdate(k, u)
    \/ RevokeInvalidate
    \/ \E r \in RazorpayIds : HandlePaymentFailed(r)
    \/ \E r \in RazorpayIds : HandleSubscriptionCancelled(r)
    \/ \E r \in RazorpayIds : HandleSubscriptionResumed(r)
    \/ \E c \in Callers, s \in Presented : ValidateStart(c, s)
    \/ \E c \in Callers : ValidateQuery(c)
    \/ \E c \in Callers : ValidateCacheSet(c)
    \/ \E c \in Callers, s \in Presented : ValidateDb(c, s)

Spec == Init /\ [][Next]_vars

\* LifecycleSpec: the validator with key creation, rotation and the billing
\* events, no revokeKey call in flight
NextLifecycle ==
    \/ Tick
    \/ \E u \in Users, s \in WellFormed : CreateApiKey(u, s)
    \/ \E k \in KeyIds, u \in Users, s \in WellFormed : RegenerateKey(k, u, s)
    \/ \E r \in RazorpayIds : HandlePaymentFailed(r)
    \/ \E r \in RazorpayIds : HandleSubscriptionCancelled(r)
    \/ \E r \in RazorpayIds : HandleSubscriptionResumed(r)
    \/ \E c \in Callers, s \in Presented : ValidateStart(c, s)
    \/ \E c \in Callers : ValidateQuery(c)
    \/ \E c \in Callers : ValidateCacheSet(c)
    \/ \E c \in Callers, s \in Presented : ValidateDb(c, s)

LifecycleSpec == Init /\ [][NextLifecycle]_vars

-----------------------------------------------------------------------------
(* SeqSpec: the data endpoints, one request after another *)

SeqMaxTime == 4       \* the clock of SeqSpec stops here

TenantKey == [format |-> "wa_", prefix |-> "wa_test_aaaa", tail |-> "t1"]
UnknownKey == [format |-> "wa_", prefix |-> "wa_test_aaaa", tail |-> "t2"]

\* The Authorization header: absent, or Bearer <apiKey>
Credentials == {<<>>, <<TenantKey>>, <<UnknownKey>>}

\* One tenant with one key, on any of the three tiers
InitSeq ==
    /\ now = 0
    /\ \E tier \in DOMAIN TIER_LIMITS :
         subscriptions = << [user_id |-> 1, tier |-> tier, status |-> "active",
                             stripe_subscription_id |-> <<>>] >>
    /\ api_keys = << generateKey(1, 1, TenantKey) >>
    /\ cache = [p \in Prefixes |-> <<>>]
    /\ v = [c \in Callers |-> Idle]
    /\ rv = Idle
    /\ revokeReturned = {}
    /\ InitRl
    /\ win = <<>>
    /\ NoCatalog

NoHeaders == [limit |-> <<>>, remaining |-> <<>>, reset |-> <<>>, retryAfter |-> <<>>]

\* createErrorResponse: requestId || generateRequestId()
ErrorResponse(status, code, requestId) ==
    [status |-> status, code |-> code, headers |-> NoHeaders, requestId |-> requestId]

\* validation.error?.includes(word)
ErrorIncludes(error, word) ==
    \/ word = "expired" /\ error = "API key expired"
    \/ word = "inactive" /\ error = "Subscription inactive"

\* The routes' answer to a failed validation
validationFailure(validation, requestId) ==
    IF ErrorIncludes(validation.error, "expired")
    THEN ErrorResponse(401, "EXPIRED_API_KEY", requestId)
    ELSE IF ErrorIncludes(validation.error, "inactive")
    THEN ErrorResponse(402, "SUBSCRIPTION_INACTIVE", requestId)
    ELSE ErrorResponse(401, "INVALID_API_KEY", requestId)

\* 'limit' in rateLimit ? rateLimit.limit : 0, then limit || 0
LimitOf(rateLimit) == IF "limit" \in DOMAIN rateLimit THEN rateLimit.limit ELSE 0

\* The 429 of /api/v1/workouts and /api/v1/categories
denialWithRetryAfter(rateLimit, requestId, t) ==
    [status |-> 429, code |-> "RATE_LIMIT_EXCEEDED",
     headers |-> [limit |-> <<LimitOf(rateLimit)>>, remaining |-> <<0>>,
                  reset |-> <<rateLimit.resetAt>>,
                  retryAfter |-> <<rateLimit.resetAt - t>>],
     requestId |-> requestId]

\* The 429 of /api/v1/workouts/[id]
denialById(rateLimit, requestId, t) ==
    [status |-> 429, code |-> "RATE_LIMIT_EXCEEDED",
     headers |-> [limit |-> <<LimitOf(rateLimit)>>, remaining |-> <<0>>,
                  reset |-> <<rateLimit.resetAt>>, retryAfter |-> <<>>],
     requestId |-> requestId]

\* NextResponse.json({data, meta}) with the three rate-limit headers
success(rateLimit, requestId) ==
    [status |-> 200, code |-> "OK",
     headers |-> [limit |-> <<LimitOf(rateLimit)>>, remaining |-> <<rateLimit.remaining>>,
                  reset |-> <<rateLimit.resetAt>>, retryAfter |-> <<>>],
     requestId |-> requestId]

\* The row writeToDatabase / logUsage inserts into api_usage
UsageRow(keyId, statusCode, requestId) ==
    [api_key_id |-> keyId, status_code |-> statusCode, request_id |-> requestId]

\* What one request does: the table it leaves, its response, the usage rows
\* it wrote, and the rate-limit decision when one was made
Outcome(rows, response, usage, decision) ==
    [rows |-> rows, resp |-> response, logged |-> usage, rl |-> decision]

\* The insert into api_usage succeeds, returns an error, or throws
Persistence == {"ok", "error", "throws"}

insertUsage(row, persist) == IF persist = "ok" THEN <<row>> ELSE <<>>

\* Mutant of logUsage: a failed insert is passed on to the caller
logUsageRethrows(keyId, statusCode, persist, nextId) ==
    [logged |-> insertUsage(UsageRow(keyId, statusCode, nextId), persist),
     requestId |-> nextId,
     threw |-> persist # "ok"]

\* RateLimitService.logUsage: it generates the id nextId and stores it; when
\* the insert throws, the catch block generates and returns another
logUsage(keyId, statusCode, persist, nextId) ==
    [logged |-> insertUsage(UsageRow(keyId, statusCode, nextId), persist),
     requestId |-> IF persist = "throws" THEN nextId + 1 ELSE nextId,
     threw |-> FALSE]

\* ApiLoggerService.logRequest and logError: log, then writeToDatabase,
\* which catches what the insert throws
logRequest(keyId, statusCode, requestId, persist) ==
    [logged |-> insertUsage(UsageRow(keyId, statusCode, requestId), persist),
     threw |-> FALSE]

\* The catch block of /api/v1/workouts and /api/v1/categories
catchLogged(rows, keyId, requestId, persist, decision) ==
    Outcome(rows, ErrorResponse(500, "INTERNAL_ERROR", requestId),
            logRequest(keyId, 500, requestId, persist).logged, decision)

\* The catch block of /api/v1/workouts/[id]
catchById(rows, keyId, persist, nextId, decision) ==
    LET log == logUsage(keyId, 500, persist, nextId)
    IN  Outcome(rows, ErrorResponse(500, "INTERNAL_ERROR", log.requestId + 1),
                log.logged, decision)

\* GET /api/v1/workouts.  Request ids are numbered in the order the request
\* generates them; this route generates its id first.
workoutsRoute(credential, outcome, persist, t) ==
    IF credential = <<>>
    THEN Outcome(rate_limits, ErrorResponse(401, "MISSING_API_KEY", 1), <<>>, <<>>)
    ELSE LET validation == validateKeyDb(credential[1], t) IN
    IF ~validation.valid
    THEN Outcome(rate_limits, validationFailure(validation, 1), <<>>, <<>>)
    ELSE LET checked == checkRateLimit(rate_limits, validation.keyId, validation.tier, t)
             rateLimit == checked.result
             decision == <<[keyId |-> validation.keyId, tier |-> validation.tier,
                            result |-> rateLimit]>>
             log == logRequest(validation.keyId, 200, 1, persist)
         IN
    IF ~rateLimit.allowed
    THEN Outcome(checked.rows, denialWithRetryAfter(rateLimit, 1, t), <<>>, decision)
    ELSE IF outcome = "invalid"
    THEN Outcome(checked.rows, ErrorResponse(400, "VALIDATION_ERROR", 1), <<>>, decision)
    ELSE IF outcome = "throws"
    THEN catchLogged(checked.rows, validation.keyId, 1, persist, decision)
    ELSE IF log.threw
    THEN catchLogged(checked.rows, validation.keyId, 1, persist, decision)
    ELSE Outcome(checked.rows, success(rateLimit, 1), log.logged, decision)

\* GET /api/v1/workouts/[id].  The route has no request id of its own:
\* logUsage generates the id it stores and returns, and every error response
\* generates another.
workoutByIdRoute(credential, outcome, persist, t) ==
    IF credential = <<>>
    THEN Outcome(rate_limits, ErrorResponse(401, "MISSING_API_KEY", 1), <<>>, <<>>)
    ELSE LET validation == validateKeyDb(credential[1], t) IN
    IF ~validation.valid
    THEN Outcome(rate_limits, validationFailure(validation, 1), <<>>, <<>>)
    ELSE LET checked == checkRateLimit(rate_limits, validation.keyId, validation.tier, t)
             rateLimit == checked.result
             decision == <<[keyId |-> validation.keyId, tier |-> validation.tier,
                            result |-> rateLimit]>>
             log == logUsage(validation.keyId, IF outcome = "missing" THEN 404 ELSE 200,
                             persist, 1)
         IN
    IF ~rateLimit.allowed
    THEN Outcome(checked.rows, denialById(rateLimit, 1, t), <<>>, decision)
    ELSE IF outcome = "throws"
    THEN catchById(checked.rows, validation.keyId, persist, 1, decision)
    ELSE IF log.threw
    THEN catchById(checked.rows, validation.keyId, persist, log.requestId + 1, decision)
    ELSE IF outcome = "missing"
    THEN Outcome(checked.rows, ErrorResponse(404, "NOT_FOUND", log.requestId + 1),
                 log.logged, decision)
    ELSE Outcome(checked.rows, success(rateLimit, log.requestId), log.logged, decision)

\* GET /api/v1/categories
categoriesRoute(credential, outcome, persist, t) ==
    IF credential = <<>>
    THEN Outcome(rate_limits, ErrorResponse(401, "MISSING_API_KEY", 1), <<>>, <<>>)
    ELSE LET validation == validateKeyDb(credential[1], t) IN
    IF ~validation.valid
    THEN Outcome(rate_limits, validationFailure(validation, 1), <<>>, <<>>)
    ELSE LET checked == checkRateLimit(rate_limits, validation.keyId, validation.tier, t)
             rateLimit == checked.result
             decision == <<[keyId |-> validation.keyId, tier |-> validation.tier,
                            result |-> rateLimit]>>
             log == logRequest(validation.keyId, 200, 1, persist)
         IN
    IF ~rateLimit.allowed
    THEN Outcome(checked.rows, denialWithRetryAfter(rateLimit, 1, t), <<>>, decision)
    ELSE IF outcome = "throws"
    THEN catchLogged(checked.rows, validation.keyId, 1, persist, decision)
    ELSE IF log.threw
    THEN catchLogged(checked.rows, validation.keyId, 1, persist, decision)
    ELSE Outcome(checked.rows, success(rateLimit, 1), log.logged, decision)

\* The per-minute window a call at time t falls in, kept apart from the
\* table: a tenant's window opens with its first call after the previous
\* window ended and lasts WindowMinute; calls counts its calls (up to two
\* past the tier's limit), denied tells whether one was denied per minute,
\* prior what the window before it was like.
Saturate(n, tier) ==
    IF n > TIER_LIMITS[tier].perMinute + 2 THEN TIER_LIMITS[tier].perMinute + 2 ELSE n

DeniedPerMinute(result) == ~result.allowed /\ result.limitType = "per_minute"

NextWindow(old, d, t) ==
    IF old = <<>> \/ t > old[1].start + WindowMinute
    THEN <<[start |-> t, calls |-> 1, denied |-> DeniedPerMinute(d.result),
            prior |-> IF old = <<>> THEN "none"
                      ELSE IF old[1].denied THEN "denied" ELSE "quiet"]>>
    ELSE <<[old[1] EXCEPT !.calls = Saturate(old[1].calls + 1, d.tier),
                          !.denied = old[1].denied \/ DeniedPerMinute(d.result)]>>

\* A request is served and its effects recorded: o is what it did, smooth
\* what it would have done had the insert into api_usage succeeded
Serve(endpoint, outcome, persist, o, smooth) ==
    /\ rate_limits' = o.rows
    /\ resp' = [pc |-> "sent", endpoint |-> endpoint, outcome |-> outcome,
                status |-> o.resp.status, code |-> o.resp.code,
                headers |-> o.resp.headers, requestId |-> o.resp.requestId,
                decided |-> o.rl # <<>>, persist |-> persist,
                smooth |-> [status |-> smooth.resp.status, code |-> smooth.resp.code,
                            headers |-> smooth.resp.headers,
                            rows |-> Len(smooth.logged)]]
    /\ logged' = o.logged
    /\ IF o.rl = <<>>
       THEN rl' = Idle /\ UNCHANGED win
       ELSE /\ win' = NextWindow(win, o.rl[1], now)
            /\ rl' = [pc |-> "returned", keyId |-> o.rl[1].keyId, tier |-> o.rl[1].tier,
                      result |-> o.rl[1].result, at |-> now, window |-> win'[1]]
    /\ UNCHANGED <<now, rc>>
    /\ UNCHANGED keyVars
    /\ UNCHANGED catVars

GetWorkouts(credential, outcome, persist) ==
    Serve("/api/v1/workouts", outcome, persist,
          workoutsRoute(credential, outcome, persist, now),
          workoutsRoute(credential, outcome, "ok", now))

GetWorkoutById(credential, outcome, persist) ==
    Serve("/api/v1/workouts/[id]", outcome, persist,
          workoutByIdRoute(credential, outcome, persist, now),
          workoutByIdRoute(credential, outcome, "ok", now))

GetCategories(credential, outcome, persist) ==
    Serve("/api/v1/categories", outcome, persist,
          categoriesRoute(credential, outcome, persist, now),
          categoriesRoute(credential, outcome, "ok", now))

SeqTick ==
    /\ now < SeqMaxTime
    /\ now' = now + 1
    /\ UNCHANGED keyVars
    /\ UNCHANGED rlVars
    /\ UNCHANGED catVars

NextSeq ==
    \/ SeqTick
    \/ \E c \in Credentials, o \in {"ok", "invalid", "throws"} : GetWorkouts(c, o, "ok")
    \/ \E c \in Credentials, o \in {"ok", "missing", "throws"} : GetWorkoutById(c, o, "ok")
    \/ \E c \in Credentials, o \in {"ok", "throws"} : GetCategories(c, o, "ok")

SeqSpec == InitSeq /\ [][NextSeq]_vars

-----------------------------------------------------------------------------
(* LogSpec: the data endpoints, one request after another, the insert into  *)
(* api_usage failing for some of them.                                      *)

LogMaxTime == 1       \* the clock of LogSpec stops here

LogTick ==
    /\ now < LogMaxTime
    /\ now' = now + 1
    /\ UNCHANGED keyVars
    /\ UNCHANGED rlVars
    /\ UNCHANGED catVars

NextLog ==
    \/ LogTick
    \/ \E c \in Credentials, o \in {"ok", "invalid", "throws"}, p \in Persistence :
          GetWorkouts(c, o, p)
    \/ \E c \in Credentials, o \in {"ok", "missing", "throws"}, p \in Persistence :
          GetWorkoutById(c, o, p)
    \/ \E c \in Credentials, o \in {"ok", "throws"}, p \in Persistence :
          GetCategories(c, o, p)

LogSpec == InitSeq /\ [][NextLog]_vars

-----------------------------------------------------------------------------
(* RaceSpec: checkRateLimit calls of one tenant in flight together, within  *)
(* one per-minute window.  Each await of checkLimit is a step: the query,   *)
(* then the insert or update computed from what the query returned.         *)

Procs == {"p1", "p2"}

RaceTier == subscriptions[1].tier

InitRace ==
    /\ now = 0
    /\ \E tier \in DOMAIN TIER_LIMITS :
         subscriptions = << [user_id |-> 1, tier |-> tier, status |-> "active",
                             stripe_subscription_id |-> <<>>] >>
    /\ api_keys = << generateKey(1, 1, TenantKey) >>
    /\ cache = [p \in Prefixes |-> <<>>]
    /\ v = [c \in Callers |-> Idle]
    /\ rv = Idle
    /\ revokeReturned = {}
    /\ rate_limits = {}
    /\ logged = <<>>
    /\ resp = Idle
    /\ rl = Idle
    /\ rc = [p \in Procs |-> Idle]
    /\ win = <<>>
    /\ NoCatalog

\* The calls that have returned in the window: how many were admitted, the
\* remaining values they were given, and whether one was given twice
Observe(old, result) ==
    LET w == IF old = <<>> THEN [admitted |-> 0, seen |-> {}, repeated |-> FALSE]
             ELSE old[1]
    IN  IF result.allowed
        THEN <<[admitted |-> Saturate(w.admitted + 1, RaceTier),
                seen |-> w.seen \cup {result.remaining},
                repeated |-> w.repeated \/ result.remaining \in w.seen]>>
        ELSE <<w>>

\* checkRateLimit returns result to the caller p
RaceReturn(p, result) ==
    /\ rc' = [rc EXCEPT ![p] = [pc |-> "returned", result |-> result]]
    /\ win' = Observe(win, result)

\* checkLimit(keyId, 'per_minute', ...): now is taken and the query runs
RaceMinuteRead(p) ==
    /\ rc[p].pc \in {"idle", "returned"}
    /\ rc' = [rc EXCEPT ![p] =
                [pc |-> "minuteRead", at |-> now,
                 limitData |-> selectLimit(rate_limits, 1, "per_minute", WindowMinute, now)]]
    /\ UNCHANGED <<now, rate_limits, win, logged, resp, rl>>
    /\ UNCHANGED keyVars
    /\ UNCHANGED catVars

\* checkLimit(keyId, 'per_minute', ...): the insert, the denial or the update
RaceMinuteWrite(p) ==
    /\ rc[p].pc = "minuteRead"
    /\ LET limits == TIER_LIMITS[RaceTier]
           minute == applyLimit(rate_limits, rc[p].limitData, 1, "per_minute",
                                limits.perMinute, WindowMinute, rc[p].at)
       IN  /\ rate_limits' = minute.rows
           /\ IF ~minute.result.allowed THEN RaceReturn(p, minute.result)
              ELSE IF MonthlyChecked(limits)
              THEN /\ rc' = [rc EXCEPT ![p] = [pc |-> "minuteDone", minute |-> minute.result]]
                   /\ UNCHANGED win
              ELSE RaceReturn(p, Admitted(limits, minute.result))
    /\ UNCHANGED <<now, logged, resp, rl>>
    /\ UNCHANGED keyVars
    /\ UNCHANGED catVars

\* checkLimit(keyId, 'monthly', ...): now is taken and the query runs
RaceMonthlyRead(p) ==
    /\ rc[p].pc = "minuteDone"
    /\ rc' = [rc EXCEPT ![p] =
                [pc |-> "monthlyRead", at |-> now, minute |-> rc[p].minute,
                 limitData |-> selectLimit(rate_limits, 1, "monthly", WindowMonth, now)]]
    /\ UNCHANGED <<now, rate_limits, win, logged, resp, rl>>
    /\ UNCHANGED keyVars
    /\ UNCHANGED catVars

\* checkLimit(keyId, 'monthly', ...): the insert, the denial or the update
RaceMonthlyWrite(p) ==
    /\ rc[p].pc = "monthlyRead"
    /\ LET limits == TIER_LIMITS[RaceTier]
           monthly == applyLimit(rate_limits, rc[p].limitData, 1, "monthly",
                                 limits.monthly, WindowMonth, rc[p].at)
       IN  /\ rate_limits' = monthly.rows
           /\ IF ~monthly.result.allowed THEN RaceReturn(p, monthly.result)
              ELSE RaceReturn(p, Admitted(limits, rc[p].minute))
    /\ UNCHANGED <<now, logged, resp, rl>>
    /\ UNCHANGED keyVars
    /\ UNCHANGED catVars

\* Time passes, within the window that starts at 0
RaceTick ==
    /\ now < WindowMinute
    /\ now' = now + 1
    /\ UNCHANGED keyVars
    /\ UNCHANGED rlVars
    /\ UNCHANGED catVars

NextRace ==
    \/ RaceTick
    \/ \E p \in Procs : RaceMinuteRead(p)
    \/ \E p \in Procs : RaceMinuteWrite(p)
    \/ \E p \in Procs : RaceMonthlyRead(p)
    \/ \E p \in Procs : RaceMonthlyWrite(p)

RaceSpec == InitRace /\ [][NextRace]_vars

-----------------------------------------------------------------------------
(* OutageSpec: checkRateLimit calls one after another, the table            *)
(* rate_limits answering some of them with errors throughout.               *)

\* checkLimit when every operation on rate_limits returns an error: the
\* query returns { data: null, error }, which reads as no row, and the
\* insert that follows is lost
checkLimitStoreDown(rows, keyId, limitType, maxRequests, windowSeconds, t) ==
    [rows |-> rows,
     result |-> applyLimit(rows, <<>>, keyId, limitType, maxRequests, windowSeconds, t).result]

\* checkRateLimit when every operation on rate_limits returns an error
checkRateLimitStoreDown(rows, keyId, tier, t) ==
    LET limits == TIER_LIMITS[tier]
        minute == checkLimitStoreDown(rows, keyId, "per_minute", limits.perMinute,
                                      WindowMinute, t)
    IN  IF ~minute.result.allowed THEN minute
        ELSE IF MonthlyChecked(limits)
        THEN LET monthly == checkLimitStoreDown(minute.rows, keyId, "monthly",
                                                limits.monthly, WindowMonth, t)
             IN  IF ~monthly.result.allowed THEN monthly
                 ELSE [rows |-> monthly.rows, result |-> Admitted(limits, minute.result)]
        ELSE [rows |-> minute.rows, result |-> Admitted(limits, minute.result)]

\* One call of checkRateLimit for the tenant's key
CheckRateLimit(storeDown) ==
    /\ LET tier == subscriptions[1].tier
           checked == IF storeDown THEN checkRateLimitStoreDown(rate_limits, 1, tier, now)
                      ELSE checkRateLimit(rate_limits, 1, tier, now)
       IN  /\ rate_limits' = checked.rows
           /\ win' = NextWindow(win, [tier |-> tier, result |-> checked.result], now)
           /\ rl' = [pc |-> "returned", keyId |-> 1, tier |-> tier,
                     result |-> checked.result, at |-> now, window |-> win'[1],
                     storeDown |-> storeDown]
    /\ UNCHANGED <<now, logged, resp, rc>>
    /\ UNCHANGED keyVars
    /\ UNCHANGED catVars

OutageTick ==
    /\ now < SeqMaxTime
    /\ now' = now + 1
    /\ UNCHANGED keyVars
    /\ UNCHANGED rlVars
    /\ UNCHANGED catVars

NextOutage ==
    \/ OutageTick
    \/ \E storeDown \in BOOLEAN : CheckRateLimit(storeDown)

OutageSpec == InitSeq /\ [][NextOutage]_vars

-----------------------------------------------------------------------------
(* CleanupSpec: checkRateLimit calls one after another, with the scheduled  *)
(* cleanup of rate_limits running at any time between them.                 *)

CleanupAge == 2       \* INTERVAL '2 days', in ticks: between a minute and a month

\* cleanup_old_records: DELETE FROM rate_limits
\* WHERE window_start < NOW() - INTERVAL '2 days'
cleanup_old_records ==
    /\ rate_limits' = {r \in rate_limits : ~(r.window_start < now - CleanupAge)}
    /\ rate_limits' # rate_limits
    /\ UNCHANGED <<now, win, logged, resp, rl, rc>>
    /\ UNCHANGED keyVars
    /\ UNCHANGED catVars

\* The admitted calls of the tenant's current monthly window, counted up to
\* one past the cap: the window opens with the first call admitted after
\* the previous window ended and lasts WindowMonth
AdmitInMonth(old, result, tier, t) ==
    IF ~result.allowed THEN old
    ELSE IF old = <<>> \/ t > old[1].start + WindowMonth
    THEN <<[start |-> t, admitted |-> 1]>>
    ELSE <<[old[1] EXCEPT !.admitted =
               IF old[1].admitted > TIER_LIMITS[tier].monthly THEN old[1].admitted
               ELSE old[1].admitted + 1]>>

\* One call of checkRateLimit for the tenant's key
CleanupRequest ==
    /\ LET tier == subscriptions[1].tier
           checked == checkRateLimit(rate_limits, 1, tier, now)
       IN  /\ rate_limits' = checked.rows
           /\ win' = AdmitInMonth(win, checked.result, tier, now)
           /\ rl' = [pc |-> "returned", keyId |-> 1, tier |-> tier,
                     result |-> checked.result, at |-> now]
    /\ UNCHANGED <<now, logged, resp, rc>>
    /\ UNCHANGED keyVars
    /\ UNCHANGED catVars

CleanupTick ==
    /\ now < SeqMaxTime
    /\ now' = now + 1
    /\ UNCHANGED keyVars
    /\ UNCHANGED rlVars
    /\ UNCHANGED catVars

NextCleanup ==
    \/ CleanupTick
    \/ CleanupRequest
    \/ cleanup_old_records

CleanupSpec == InitSeq /\ [][NextCleanup]_vars

-----------------------------------------------------------------------------
(* CacheService.hashParams.  An option bag is the sequence of its entries   *)
(* in insertion order, keys distinct; a value carries its JSON text as a    *)
(* sequence of characters.                                                  *)

MaxBag == 2           \* entries of an option bag in HashSpec

Undefined == [kind |-> "undefined", text |-> <<>>]
Null == [kind |-> "null", text |-> <<>>]
Num(digits) == [kind |-> "number", text |-> digits]
Str(chars) == [kind |-> "string", text |-> <<"\"">> \o chars \o <<"\"">>]

\* The option names in the order Array.prototype.sort() puts them
KeyOrder == <<"a", "difficulty", "equipment", "limit", "muscleGroup", "page", "search", "tier">>

KeyChars ==
    [a |-> <<"a">>,
     difficulty |-> <<"d", "i", "f", "f", "i", "c", "u", "l", "t", "y">>,
     equipment |-> <<"e", "q", "u", "i", "p", "m", "e", "n", "t">>,
     limit |-> <<"l", "i", "m", "i", "t">>,
     muscleGroup |-> <<"m", "u", "s", "c", "l", "e", "G", "r", "o", "u", "p">>,
     page |-> <<"p", "a", "g", "e">>,
     search |-> <<"s", "e", "a", "r", "c", "h">>,
     tier |-> <<"t", "i", "e", "r">>]

Entry(key, value) == [key |-> key, value |-> value]

keysOf(params) == {params[i].key : i \in DOMAIN params}
valueOf(params, key) == (CHOOSE e \in {params[i] : i \in DOMAIN params} : e.key = key).value

\* params[key] !== undefined && params[key] !== null
Kept(params, key) == valueOf(params, key).kind \notin {"undefined", "null"}

RECURSIVE insertionKeysFrom(_, _)
insertionKeysFrom(params, i) ==
    IF i > Len(params) THEN <<>>
    ELSE <<params[i].key>> \o insertionKeysFrom(params, i + 1)

\* Mutant of sortedKeys: Object.keys(params) without .sort()
insertionKeys(params) == insertionKeysFrom(params, 1)

RECURSIVE sortedKeysFrom(_, _)
sortedKeysFrom(params, i) ==
    IF i > Len(KeyOrder) THEN <<>>
    ELSE (IF KeyOrder[i] \in keysOf(params) THEN <<KeyOrder[i]>> ELSE <<>>)
         \o sortedKeysFrom(params, i + 1)

\* Object.keys(params).sort()
sortedKeys(params) == sortedKeysFrom(params, 1)

\* JSON.stringify of the object the reduce builds: the kept entries in the
\* order of keys
RECURSIVE jsonEntries(_, _, _, _)
jsonEntries(params, keys, i, first) ==
    IF i > Len(keys) THEN <<>>
    ELSE IF ~Kept(params, keys[i]) THEN jsonEntries(params, keys, i + 1, first)
    ELSE (IF first THEN <<>> ELSE <<",">>)
         \o <<"\"">> \o KeyChars[keys[i]] \o <<"\"", ":">> \o valueOf(params, keys[i]).text
         \o jsonEntries(params, keys, i + 1, FALSE)

stringify(params, keys) == <<"{">> \o jsonEntries(params, keys, 1, TRUE) \o <<"}">>

\* Buffer.from(text).toString('base64'): every three bytes make four
\* characters, which this keeps as one group (the last group may be short
\* and is padded)
RECURSIVE toBase64(_)
toBase64(bytes) ==
    IF Len(bytes) = 0 THEN <<>>
    ELSE IF Len(bytes) <= 3 THEN <<bytes>>
    ELSE <<SubSeq(bytes, 1, 3)>> \o toBase64(SubSeq(bytes, 4, Len(bytes)))

\* .substring(0, 16): the first four groups of four characters
substring16(groups) == SubSeq(groups, 1, IF Len(groups) < 4 THEN Len(groups) ELSE 4)

\* CacheService.hashParams
hashParams(params) == substring16(toBase64(stringify(params, sortedKeys(params))))

-----------------------------------------------------------------------------
(* HashSpec: hashParams applied to two option bags *)

HashKeys == {"a", "limit", "page"}
HashValues == {Undefined, Null, Num(<<"1">>), Num(<<"2">>)}

OptionBags ==
    {b \in UNION {[1..n -> [key : HashKeys, value : HashValues]] : n \in 0..MaxBag} :
        \A i, j \in DOMAIN b : i # j => b[i].key # b[j].key}

InitHash ==
    /\ now = 0
    /\ InitKeys
    /\ InitRl
    /\ win = <<>>
    /\ NoCatalog

\* hashParams is applied to two option bags
HashPair(first, second) ==
    /\ hp' = [pc |-> "hashed", first |-> first, second |-> second,
              key1 |-> hashParams(first), key2 |-> hashParams(second)]
    /\ UNCHANGED <<now, workouts, wcache, wq, kq>>
    /\ UNCHANGED keyVars
    /\ UNCHANGED rlVars

\* The two keys are dropped; hashParams keeps nothing between calls
HashForget ==
    /\ hp.pc = "hashed"
    /\ hp' = Idle
    /\ UNCHANGED <<now, workouts, wcache, wq, kq>>
    /\ UNCHANGED keyVars
    /\ UNCHANGED rlVars

NextHash ==
    \/ hp.pc = "idle" /\ \E first \in OptionBags, second \in OptionBags : HashPair(first, second)
    \/ HashForget

HashSpec == InitHash /\ [][NextHash]_vars

-----------------------------------------------------------------------------
(* CatalogSpec: WorkoutService.list and getById behind CacheService.getOrSet, *)
(* with soft deletion, all within one cache TTL.  A cache entry is          *)
(* [key, value]; a value is a set of workout ids, or null.                  *)

tierHierarchy == [free |-> 0, pro |-> 1, enterprise |-> 2]

TierChars ==
    [free |-> <<"f", "r", "e", "e">>,
     pro |-> <<"p", "r", "o">>,
     enterprise |-> <<"e", "n", "t", "e", "r", "p", "r", "i", "s", "e">>]

Beginner == Str(<<"b", "e", "g", "i", "n", "n", "e", "r">>)

RequestTiers == {"free", "enterprise"}
\* getById's tier parameter is optional: the call without one
NoTier == ""
Difficulties == {Undefined, Beginner}
Handles == {"w2", "w2-slug"}

InitCatalog ==
    /\ now = 0
    /\ InitKeys
    /\ InitRl
    /\ win = <<>>
    /\ workouts =
         {[id |-> "w1", slug |-> "w1-slug", tier_access |-> "free",
           difficulty |-> Beginner, is_deleted |-> FALSE],
          [id |-> "w2", slug |-> "w2-slug", tier_access |-> "pro",
           difficulty |-> Str(<<"h", "a", "r", "d">>), is_deleted |-> FALSE]}
    /\ wcache = {}
    /\ wq = Idle
    /\ hp = Idle
    /\ kq = {}

NullValue == [kind |-> "null", rows |-> {}]
Rows(ids) == [kind |-> "rows", rows |-> ids]

\* CacheService.generateKey('workouts', 'list', hash)
listKey(hash) == [kind |-> "list", hash |-> hash, id |-> "", tier |-> ""]
\* CacheService.generateKey('workouts', 'single', id, tier): the parts that
\* are set, joined by ':'; without a tier the key ends with the id
singleKey(id, tier) == [kind |-> "single", hash |-> <<>>, id |-> id, tier |-> tier]

\* redis.get: the stored value, null when there is none
redisGet(entries, key) ==
    IF \E e \in entries : e.key = key
    THEN (CHOOSE e \in entries : e.key = key).value
    ELSE NullValue

\* redis.set
redisSet(entries, key, value) ==
    {e \in entries : e.key # key} \cup {[key |-> key, value |-> value]}

\* CacheService.getOrSet, the fetcher returning fetched, after throwing
\* once when throwsOnce
getOrSet(entries, key, fetched, throwsOnce) ==
    LET cached == redisGet(entries, key) IN
    IF cached # NullValue
    THEN [entries |-> entries, data |-> cached, cached |-> TRUE, fetches |-> 0,
          threw |-> FALSE]
    ELSE IF throwsOnce
    THEN [entries |-> entries, data |-> fetched, cached |-> FALSE, fetches |-> 2,
          threw |-> TRUE]
    ELSE [entries |-> redisSet(entries, key, fetched), data |-> fetched,
          cached |-> FALSE, fetches |-> 1, threw |-> FALSE]

\* The option bag list passes to hashParams
listParams(page, limit, difficulty, tier) ==
    << Entry("page", page), Entry("limit", limit), Entry("difficulty", difficulty),
       Entry("muscleGroup", Undefined), Entry("equipment", Undefined),
       Entry("tier", Str(TierChars[tier])), Entry("search", Undefined) >>

\* The fetcher of list: the page holds every row that matches (page 1,
\* limit 20)
listFetcher(rows, difficulty, tier) ==
    Rows({r.id : r \in {x \in rows :
                          /\ ~x.is_deleted
                          /\ tierHierarchy[x.tier_access] <= tierHierarchy[tier]
                          /\ difficulty # Undefined => x.difficulty = difficulty}})

\* The fetcher of getById
singleFetcher(rows, handle, tier) ==
    LET live == {r \in rows : ~r.is_deleted}
        byId == {r \in live : r.id = handle}
        found == IF byId # {} THEN byId ELSE {r \in live : r.slug = handle}
    IN  IF found = {} THEN NullValue
        ELSE IF tier # NoTier
                /\ \E r \in found : tierHierarchy[r.tier_access] > tierHierarchy[tier]
        THEN NullValue
        ELSE Rows({r.id : r \in found})

\* The rows a tenant of the tier may be given
Visible(rows, tier) ==
    {r.id : r \in {x \in rows : /\ ~x.is_deleted
                                /\ tier # NoTier =>
                                     tierHierarchy[x.tier_access] <= tierHierarchy[tier]}}

Answer(op, tier, key, got) ==
    [pc |-> "returned", op |-> op, tier |-> tier, key |-> key,
     primed |-> \E e \in wcache : e.key = key,
     before |-> redisGet(wcache, key),
     data |-> got.data, cached |-> got.cached, fetches |-> got.fetches,
     threw |-> got.threw,
     visible |-> Visible(workouts, tier)]

\* The cache key of list for page 1, limit 20 and each difficulty and tier:
\* CacheService.generateKey('workouts', 'list', CacheService.hashParams(...))
listCacheKey ==
    [difficulty \in Difficulties, tier \in RequestTiers |->
        listKey(hashParams(listParams(Num(<<"1">>), Num(<<"2", "0">>), difficulty, tier)))]

\* WorkoutService.list
List(difficulty, tier, throwsOnce) ==
    /\ LET key == listCacheKey[difficulty, tier]
           got == getOrSet(wcache, key, listFetcher(workouts, difficulty, tier), throwsOnce)
       IN  /\ wcache' = got.entries
           /\ wq' = Answer("list", tier, key, got)
    /\ UNCHANGED <<now, workouts, hp, kq>>
    /\ UNCHANGED keyVars
    /\ UNCHANGED rlVars

\* WorkoutService.getById
GetById(handle, tier, throwsOnce) ==
    /\ LET key == singleKey(handle, tier)
           got == getOrSet(wcache, key, singleFetcher(workouts, handle, tier), throwsOnce)
       IN  /\ wcache' = got.entries
           /\ wq' = Answer("getById", tier, key, got)
    /\ UNCHANGED <<now, workouts, hp, kq>>
    /\ UNCHANGED keyVars
    /\ UNCHANGED rlVars

\* invalidateSingleCache(id), invalidateListCaches(): the keys that match
\* workouts:single:<id>:* (the id, a colon, a tier) and workouts:list:*
invalidate(entries, id) ==
    {e \in entries :
        ~(\/ e.key.kind = "list"
          \/ e.key.kind = "single" /\ e.key.id = id /\ e.key.tier # NoTier)}

\* WorkoutService.delete(id), soft
Delete(id) ==
    /\ \E r \in workouts : r.id = id /\ ~r.is_deleted
    /\ workouts' = {IF r.id = id THEN [r EXCEPT !.is_deleted = TRUE] ELSE r : r \in workouts}
    /\ wcache' = invalidate(wcache, id)
    /\ UNCHANGED <<now, wq, hp, kq>>
    /\ UNCHANGED keyVars
    /\ UNCHANGED rlVars

\* WorkoutService.restore(id)
Restore(id) ==
    /\ \E r \in workouts : r.id = id /\ r.is_deleted
    /\ workouts' = {IF r.id = id THEN [r EXCEPT !.is_deleted = FALSE] ELSE r : r \in workouts}
    /\ wcache' = invalidate(wcache, id)
    /\ UNCHANGED <<now, wq, hp, kq>>
    /\ UNCHANGED keyVars
    /\ UNCHANGED rlVars

NextCatalog ==
    \/ \E d \in Difficulties, t \in RequestTiers, x \in BOOLEAN : List(d, t, x)
    \/ \E h \in Handles, t \in RequestTiers \cup {NoTier}, x \in BOOLEAN : GetById(h, t, x)
    \/ \E r \in workouts : Delete(r.id)
    \/ \E r \in workouts : Restore(r.id)

CatalogSpec == InitCatalog /\ [][NextCatalog]_vars

-----------------------------------------------------------------------------
(* The key quota.  Keys are created by the create-key request, by          *)
(* regenerateKey, by signup and by the activation webhook.                 *)

MaxSubs == 2

\* The plan ids of the webhook: the two configured ones and any other
PlanIds == {"plan_pro", "plan_enterprise", "plan_other"}

\* SubscriptionService.getTierFromPlanId
getTierFromPlanId(planId) ==
    IF planId = "plan_pro" THEN "pro"
    ELSE IF planId = "plan_enterprise" THEN "enterprise"
    ELSE "free"

InitQuota ==
    /\ now = 0
    /\ api_keys = <<>>
    /\ subscriptions = <<>>
    /\ cache = [p \in Prefixes |-> <<>>]
    /\ v = [c \in Callers |-> Idle]
    /\ rv = Idle
    /\ revokeReturned = {}
    /\ InitRl
    /\ win = <<>>
    /\ NoCatalog

\* SubscriptionService.createFreeSubscription, called by the signup route:
\* a free subscription is inserted and its default key generated
CreateFreeSubscription(userId, apiKey) ==
    /\ Len(subscriptions) < MaxSubs
    /\ apiKey \in FreshSecrets
    /\ subscriptions' = Append(subscriptions,
         [user_id |-> userId, tier |-> "free", status |-> "active",
          stripe_subscription_id |-> <<>>])
    /\ api_keys' = Append(api_keys, generateKey(userId, Len(subscriptions) + 1, apiKey))
    /\ UNCHANGED <<now, cache, v, rv, revokeReturned>>
    /\ UNCHANGED rlVars
    /\ UNCHANGED catVars

\* SubscriptionService.handleSubscriptionActivated: the row with the
\* provider's id is updated; without one a row is inserted and its default
\* key generated
HandleSubscriptionActivated(userId, razorpayId, planId, apiKey) ==
    LET subscriptionData ==
            [user_id |-> userId, tier |-> getTierFromPlanId(planId), status |-> "active",
             stripe_subscription_id |-> <<razorpayId>>]
        existing == {s \in SubIds : subscriptions[s].stripe_subscription_id = <<razorpayId>>}
    IN  /\ IF existing # {}
           THEN /\ subscriptions' = [s \in SubIds |->
                                       IF s \in existing THEN subscriptionData
                                       ELSE subscriptions[s]]
                /\ apiKey = CHOOSE s \in WellFormed : TRUE    \* no key is generated
                /\ UNCHANGED api_keys
           ELSE /\ Len(subscriptions) < MaxSubs
                /\ apiKey \in FreshSecrets
                /\ subscriptions' = Append(subscriptions, subscriptionData)
                /\ api_keys' = Append(api_keys,
                                      generateKey(userId, Len(subscriptions) + 1, apiKey))
        /\ UNCHANGED <<now, cache, v, rv, revokeReturned>>
        /\ UNCHANGED rlVars
        /\ UNCHANGED catVars

\* POST (create API key), up to its quota check: the subscription and the
\* count of active keys are read; at the quota the request is refused (403),
\* without a subscription it is answered 404
CreateKeyCheck(p, userId) ==
    /\ \A q \in kq : q.p # p
    /\ getUserSubscription(userId) # <<>>
    /\ LET subscription == getUserSubscription(userId)[1]
           limits == TIER_LIMITS[subscriptions[subscription].tier]
           keyCount == getKeyCount(userId)
       IN  /\ keyCount < limits.maxApiKeys
           /\ kq' = kq \cup {[p |-> p, userId |-> userId, subscription |-> subscription]}
    /\ UNCHANGED <<workouts, wcache, wq, hp>>
    /\ UNCHANGED <<now>>
    /\ UNCHANGED keyVars
    /\ UNCHANGED rlVars

\* POST (create API key), the rest: generateKey inserts the key
CreateKeyInsert(p, apiKey) ==
    /\ apiKey \in FreshSecrets
    /\ \E q \in kq :
          /\ q.p = p
          /\ api_keys' = Append(api_keys, generateKey(q.userId, q.subscription, apiKey))
          /\ kq' = kq \ {q}
    /\ UNCHANGED <<workouts, wcache, wq, hp>>
    /\ UNCHANGED <<now, subscriptions, cache, v, rv, revokeReturned>>
    /\ UNCHANGED rlVars

NextQuota ==
    \/ \E u \in Users, s \in WellFormed : CreateFreeSubscription(u, s)
    \/ \E u \in Users, r \in RazorpayIds, pl \in PlanIds, s \in WellFormed :
          HandleSubscriptionActivated(u, r, pl, s)
    \/ \E p \in Procs, u \in Users : CreateKeyCheck(p, u)
    \/ \E p \in Procs, s \in WellFormed : CreateKeyInsert(p, s)
    \/ \E k \in KeyIds, u \in Users, s \in WellFormed : RegenerateKey(k, u, s)
    \/ \E k \in KeyIds, u \in Users : RevokeUpdate(k, u)
    \/ RevokeInvalidate
    \/ \E r \in RazorpayIds : HandleSubscriptionCharged(r)
    \/ \E r \in RazorpayIds : HandleSubscriptionResumed(r)
    \/ \E r \in RazorpayIds : HandleSubscriptionCancelled(r)
    \/ \E r \in RazorpayIds : HandlePaymentFailed(r)

QuotaSpec == InitQuota /\ [][NextQuota]_vars

-----------------------------------------------------------------------------
(* Claims about the validator, under Spec *)

Returned(c) == v[c].pc = "done"

\* C1: validateKey returns valid:true only for a presented secret that is the
\* secret of an active, unexpired key of an active or trialing subscription;
\* a call that returned valid:true found the key in that standing at one of
\* its steps at least.
C1_NoFalsePositive ==
    \A c \in Callers : Returned(c) /\ v[c].result.valid => v[c].any

\* C2: a call that presents the secret of a key in good standing for as long
\* as the call runs returns valid:true with that key's id, its user and its
\* subscription's tier, whatever other keys the store holds.
C2_GoodKeyValidates ==
    \A c \in Callers :
        Returned(c) /\ v[c].all =>
            /\ v[c].result.valid
            /\ v[c].result.keyId \in RowsOf(v[c].apiKey)
            /\ v[c].result.userId = api_keys[v[c].result.keyId].user_id
            /\ v[c].result.tier =
                 subscriptions[api_keys[v[c].result.keyId].subscription_id].tier

\* C3: a validateKey call that starts after revokeKey(k, user) has returned
\* and presents k's secret does not return valid:true.
C3_RevokedNeverValidates ==
    \A c \in Callers : Returned(c) /\ v[c].afterRevoke => ~v[c].result.valid

\* A validateKey call of caller c that starts and returns within the step
StartsAndReturns(c) ==
    /\ v[c].pc \in {"idle", "done"}
    /\ v'[c].pc = "done"
    /\ v'[c] # v[c]

\* The rows regenerateKey has put into their grace period and nothing else
\* has touched: active, of an active subscription, with an expiry scheduled
Rotated(apiKey) ==
    {k \in RowsOf(apiKey) :
        /\ api_keys[k].expires_at # <<>>
        /\ api_keys[k].is_active
        /\ subscriptions[api_keys[k].subscription_id].status = "active"}

\* C19: a key k that regenerateKey has replaced keeps validating at every
\* instant up to the expiry regenerateKey scheduled for it, and a call that
\* presents k at an instant after that expiry fails with "API key expired".
C19_GraceThenExpired ==
    [][\A c \in Callers :
          StartsAndReturns(c) =>
              \A k \in Rotated(v'[c].apiKey) :
                  IF api_keys[k].expires_at[1] < now
                  THEN v'[c].result = Fail("API key expired")
                  ELSE v'[c].result.valid]_vars

\* The failure conditions of a presented key, in the claimed order of
\* precedence, and whether each holds: the prefix lookup yields no record;
\* the record's expiry has passed; the secret does not match the record's
\* hash; the record's subscription is neither active nor trialing
Precedence ==
    <<"API key not found", "API key expired", "Invalid API key", "Subscription inactive">>

Holds(apiKey, i) ==
    LET found == ActiveByPrefix(substring12(apiKey)) IN
    IF i = 1 THEN Cardinality(found) # 1
    ELSE /\ Cardinality(found) = 1
         /\ LET keyData == api_keys[CHOOSE x \in found : TRUE] IN
            CASE i = 2 -> keyData.expires_at # <<>> /\ keyData.expires_at[1] < now
              [] i = 3 -> keyData.key_hash # bcryptHash(apiKey)
              [] i = 4 -> subscriptions[keyData.subscription_id].status
                            \notin {"active", "trialing"}

Failing(apiKey) == {i \in 1..4 : Holds(apiKey, i)}

\* The status and code the pipeline is claimed to answer each failure with
ClaimedAnswer ==
    <<[status |-> 401, code |-> "INVALID_API_KEY"],
      [status |-> 401, code |-> "EXPIRED_API_KEY"],
      [status |-> 401, code |-> "INVALID_API_KEY"],
      [status |-> 402, code |-> "SUBSCRIPTION_INACTIVE"]>>

\* A step in which caller c's call runs its database checks and fails
FailsAtDatabase(c) ==
    /\ v'[c] # v[c]
    /\ v'[c].pc = "done"
    /\ ~v'[c].result.valid
    /\ v'[c].apiKey.format = "wa_"

\* C25: a validateKey call that fails at its database checks reports the
\* first, in the order not found, expired, secret mismatch, subscription
\* inactive, of the failure conditions that hold for the presented key, and
\* the routes answer it 401 INVALID_API_KEY, 401 EXPIRED_API_KEY, 401
\* INVALID_API_KEY and 402 SUBSCRIPTION_INACTIVE respectively.
C25_FailurePrecedence ==
    [][\A c \in Callers :
          FailsAtDatabase(c) =>
              LET failing == Failing(v'[c].apiKey)
                  first == CHOOSE i \in failing : \A j \in failing : i <= j
                  answer == validationFailure(v'[c].result, 1)
              IN  /\ failing # {}
                  /\ v'[c].result.error = Precedence[first]
                  /\ answer.status = ClaimedAnswer[first].status
                  /\ answer.code = ClaimedAnswer[first].code]_vars

\* C25, its case: a call was answered "API key expired" for a key whose
\* record is expired while another failure condition holds as well
C25_Witness ==
    \E c \in Callers :
        /\ Returned(c)
        /\ v[c].result = Fail("API key expired")
        /\ Holds(v[c].apiKey, 2)
        /\ Holds(v[c].apiKey, 3) \/ Holds(v[c].apiKey, 4)

-----------------------------------------------------------------------------
(* Claims about the rate limiter and the endpoints, under SeqSpec *)

Decided == rl.pc = "returned"
Sent == resp.pc = "sent"
PerMinuteLimit == TIER_LIMITS[rl.tier].perMinute
DeniedMonthly(result) == ~result.allowed /\ result.limitType = "monthly"

\* The first instant of the calendar month after the one t lies in
NextMonthStart(t) == ((t \div MonthLen) + 1) * MonthLen

RECURSIVE SumCounts(_)
SumCounts(rows) ==
    IF rows = {} THEN 0
    ELSE LET r == CHOOSE x \in rows : TRUE IN r.request_count + SumCounts(rows \ {r})

\* C4, as stated: of the calls of one per-minute window, the i-th returns
\* allowed:true with remaining N - i for i <= N, and the (N+1)th returns
\* allowed:false with remaining 0.
C4_FirstNAllowed ==
    Decided =>
        /\ rl.window.calls <= PerMinuteLimit =>
              rl.result.allowed /\ rl.result.remaining = PerMinuteLimit - rl.window.calls
        /\ rl.window.calls = PerMinuteLimit + 1 =>
              ~rl.result.allowed /\ rl.result.remaining = 0

\* C4, amended: the i-th call of a window, i <= N, returns allowed:true with
\* remaining N - i unless the monthly check denies it, and the (N+1)th is
\* denied per minute with remaining 0.
C4_FirstNAllowedUnlessMonthly ==
    Decided =>
        /\ rl.window.calls <= PerMinuteLimit =>
              \/ rl.result.allowed /\ rl.result.remaining = PerMinuteLimit - rl.window.calls
              \/ DeniedMonthly(rl.result)
        /\ rl.window.calls = PerMinuteLimit + 1 =>
              DeniedPerMinute(rl.result) /\ rl.result.remaining = 0

\* The (N+1)th call of a window has been made and denied.
C4_Witness ==
    Decided /\ rl.window.calls = PerMinuteLimit + 1 /\ DeniedPerMinute(rl.result)

\* C5: however concurrent checkRateLimit calls of one tenant interleave
\* within one per-minute window, no two admitted calls are given the same
\* counter value, and at most N of them, N the tier's per-minute limit, are
\* admitted.
C5_ConcurrentCallsSerialised ==
    win # <<>> =>
        /\ ~win[1].repeated
        /\ win[1].admitted <= TIER_LIMITS[RaceTier].perMinute

\* C30: on a 429 response X-RateLimit-Limit equals the tier's configured
\* limit of the limit type that was exceeded.
C30_DenialCarriesTierLimit ==
    Sent /\ Decided /\ resp.status = 429 =>
        resp.headers.limit =
            <<IF DeniedMonthly(rl.result) THEN TIER_LIMITS[rl.tier].monthly
              ELSE TIER_LIMITS[rl.tier].perMinute>>

\* C26: for the tenant's key and each limit type at most one rate_limits row
\* has its window_start inside the current window, however concurrent
\* checkRateLimit calls interleave.
C26_OneLiveRow ==
    /\ Cardinality(liveRows(rate_limits, 1, "per_minute", WindowMinute, now)) <= 1
    /\ Cardinality(liveRows(rate_limits, 1, "monthly", WindowMonth, now)) <= 1

\* C27: for a tenant of a tier with a finite monthly cap, the number of
\* requests admitted within one monthly window never exceeds the cap, the
\* cleanup of old rate-limit rows running at any time.
C27_CapHoldsAcrossCleanup ==
    win # <<>> /\ MonthlyChecked(TIER_LIMITS[subscriptions[1].tier]) =>
        win[1].admitted <= TIER_LIMITS[subscriptions[1].tier].monthly

\* C6: a fresh free-tier tenant's requests within its first minute get 200
\* up to the per-minute limit, and the next gets 429 with
\* X-RateLimit-Remaining: 0 and Retry-After, on each protected endpoint.
C6_EndToEnd ==
    Sent /\ Decided /\ resp.outcome = "ok" /\ rl.tier = "free" /\ rl.window.prior = "none" =>
        /\ rl.window.calls <= PerMinuteLimit => resp.status = 200
        /\ rl.window.calls = PerMinuteLimit + 1 =>
              /\ resp.status = 429
              /\ resp.headers.remaining = <<0>>
              /\ resp.headers.retryAfter # <<>>

\* C7: a response produced after the rate-limit decision carries
\* X-RateLimit-Limit, -Remaining and -Reset, and a 429 carries Retry-After.
C7_HeadersAfterDecision ==
    Sent /\ resp.decided =>
        /\ resp.headers.limit # <<>>
        /\ resp.headers.remaining # <<>>
        /\ resp.headers.reset # <<>>
        /\ resp.status = 429 => resp.headers.retryAfter # <<>>

\* C8: a monthly denial's resetAt is the first instant of the next calendar
\* month.
C8_MonthlyResetAtMonthStart ==
    Decided /\ DeniedMonthly(rl.result) => rl.result.resetAt = NextMonthStart(rl.at)

\* C9: a tenant of the tier whose monthly cap is -1 is never denied on
\* monthly grounds, and no monthly counter is kept for it: its only denial
\* has limitType per_minute.
C9_EnterpriseNeverMonthly ==
    subscriptions[1].tier = "enterprise" =>
        /\ \A r \in rate_limits : r.limit_type = "per_minute"
        /\ Decided /\ ~rl.result.allowed => rl.result.limitType = "per_minute"

\* An enterprise tenant is admitted with more requests counted than any
\* finite monthly cap of the table.
C9_Witness ==
    /\ subscriptions[1].tier = "enterprise"
    /\ Decided /\ rl.result.allowed
    /\ SumCounts(rate_limits) > ProMonthly

\* C10, as stated: the first call after a per-minute window has elapsed
\* returns allowed:true with remaining = limit - 1.
C10_RolloverAdmits ==
    Decided /\ rl.window.prior # "none" /\ rl.window.calls = 1 =>
        rl.result.allowed /\ rl.result.remaining = PerMinuteLimit - 1

\* C10, amended: the first call after a per-minute window has elapsed passes
\* the per-minute check with the counter reset: it returns allowed:true with
\* remaining = limit - 1 unless the monthly check denies it.
C10_RolloverAdmitsUnlessMonthly ==
    Decided /\ rl.window.prior # "none" /\ rl.window.calls = 1 =>
        \/ rl.result.allowed /\ rl.result.remaining = PerMinuteLimit - 1
        \/ DeniedMonthly(rl.result)

\* A window that ended in denials has elapsed and the next call is admitted.
C10_Witness ==
    /\ Decided /\ rl.window.prior = "denied" /\ rl.window.calls = 1
    /\ rl.result.allowed /\ rl.result.remaining = PerMinuteLimit - 1

MonthlyRows(rows) == {r \in rows : r.limit_type = "monthly"}
MinuteRows(rows) == {r \in rows : r.limit_type = "per_minute"}

\* C23: the monthly counter changes only in a checkRateLimit call whose
\* per-minute check allowed the request and whose tier has a finite monthly
\* cap (a request denied per minute leaves it unchanged); the per-minute
\* check comes first, so a request denied on the monthly cap has been counted
\* in the per-minute window.
C23_MonthlyOnlyAfterMinute ==
    [][/\ MonthlyRows(rate_limits') # MonthlyRows(rate_limits) =>
            /\ rl'.pc = "returned"
            /\ MonthlyChecked(TIER_LIMITS[rl'.tier])
            /\ ~DeniedPerMinute(rl'.result)
       /\ (rl' # rl /\ rl'.pc = "returned" /\ DeniedMonthly(rl'.result)) =>
            MinuteRows(rate_limits') # MinuteRows(rate_limits)]_vars

\* C23, its case: a request was denied per minute while the tenant's monthly
\* counter stands below the cap, at the number of requests admitted
C23_Witness ==
    /\ Decided /\ DeniedPerMinute(rl.result)
    /\ MonthlyChecked(TIER_LIMITS[rl.tier])
    /\ \E r \in MonthlyRows(rate_limits) :
          r.api_key_id = rl.keyId /\ r.request_count = PerMinuteLimit
                                  /\ r.request_count < TIER_LIMITS[rl.tier].monthly

\* C24: after k checkRateLimit calls of the tenant within one per-minute
\* window the window's counter equals k, denied calls included.
C24_DeniedCallsCounted ==
    Decided /\ rl.window.calls <= PerMinuteLimit + 1 =>
        \A r \in MinuteRows(rate_limits) :
            r.api_key_id = rl.keyId /\ r.window_start = rl.window.start =>
                r.request_count = rl.window.calls

-----------------------------------------------------------------------------
(* Claims about the rate limiter with its store failing, under OutageSpec *)

\* C11: when every operation on the counter store errors, checkRateLimit
\* returns allowed:true with remaining equal to the tier's full per-minute
\* quota.
C11_FailOpenFullQuota ==
    Decided /\ "storeDown" \in DOMAIN rl /\ rl.storeDown =>
        rl.result.allowed /\ rl.result.remaining = PerMinuteLimit

\* C22: a checkRateLimit call whose reads of the counter store fail does
\* not return allowed:true (the request is not admitted).
C22_StoreFailureNotAdmitted ==
    Decided /\ "storeDown" \in DOMAIN rl /\ rl.storeDown => ~rl.result.allowed

-----------------------------------------------------------------------------
(* Claims about hashParams, under HashSpec *)

Hashed == hp.pc = "hashed"

\* The entries of an option bag that are neither null nor undefined
NonNullEntries(params) ==
    {<<params[i].key, params[i].value>> : i \in {j \in DOMAIN params : Kept(params, params[j].key)}}

\* C14: two option bags that differ in at least one non-null entry get
\* different keys.
C14_DifferentBagsDifferentKeys ==
    Hashed /\ NonNullEntries(hp.first) # NonNullEntries(hp.second) => hp.key1 # hp.key2

\* C15: two option bags with the same set of non-null entries get the same
\* key, whatever the order of their keys and whatever null or undefined
\* entries they hold besides.
C15_OrderAndNullIndependent ==
    Hashed /\ NonNullEntries(hp.first) = NonNullEntries(hp.second) => hp.key1 = hp.key2

\* Two bags with the same two non-null entries in opposite orders have been
\* hashed.
C15_Witness ==
    /\ Hashed
    /\ Len(hp.first) = 2 /\ Len(hp.second) = 2
    /\ hp.first[1] = hp.second[2] /\ hp.first[2] = hp.second[1]
    /\ Cardinality(NonNullEntries(hp.first)) = 2
    /\ hp.key1 = hp.key2

-----------------------------------------------------------------------------
(* Claims about the catalogue and its cache, under CatalogSpec *)

Answered == wq.pc = "returned"

\* C12: list and getById called for a tenant of tier T return only workouts
\* that are not soft-deleted and whose tier_access is at or below T, also
\* when the result comes from the cache.
C12_OnlyVisibleWorkouts == Answered => wq.data.rows \subseteq wq.visible

\* C13: on a cold key getOrSet calls the fetcher exactly once and returns
\* cached:false; after an earlier getOrSet stored under the key it calls the
\* fetcher zero times and returns the same data with cached:true; whatever
\* value the fetcher returns (no call of it throwing).
C13_CacheAsideRoundTrip ==
    Answered /\ ~wq.threw =>
        /\ ~wq.primed => wq.fetches = 1 /\ ~wq.cached
        /\ wq.primed => wq.fetches = 0 /\ wq.cached /\ wq.data = wq.before

\* C28: one call of getOrSet invokes the fetcher at most once, also when
\* the fetcher throws.
C28_FetcherAtMostOnce == Answered => wq.fetches <= 1

\* C29: a getById call made after delete(id) has returned, by id or by slug
\* and with any tier argument or none, does not return the soft-deleted
\* workout.
C29_NoStaleAfterChange ==
    [][(wq' # wq /\ wq'.pc = "returned" /\ wq'.op = "getById") =>
          \A r \in workouts : r.is_deleted => r.id \notin wq'.data.rows]_vars

-----------------------------------------------------------------------------
(* Claims about usage logging, under LogSpec *)

\* C16: the requestId in the response envelope equals the request_id of the
\* usage row written for the request.
C16_RequestIdEchoed ==
    Sent => \A i \in DOMAIN logged : logged[i].request_id = resp.requestId

\* C17: when persisting the usage row fails, the response has the status,
\* code and headers it would have had with the row persisted, and it carries
\* a request id.
C17_LoggingNeverFailsRequest ==
    Sent /\ resp.persist # "ok" /\ resp.smooth.rows > 0 =>
        /\ resp.status = resp.smooth.status
        /\ resp.code = resp.smooth.code
        /\ resp.headers = resp.smooth.headers
        /\ resp.requestId >= 1

\* A request whose usage insert threw was answered 200 and left no row.
C17_Witness ==
    /\ Sent /\ resp.persist = "throws" /\ resp.smooth.rows = 1
    /\ resp.status = 200 /\ logged = <<>>

\* C18: a completed request made with a validated key appends exactly one
\* row to api_usage (the insert succeeding).
C18_OneRowPerRequest ==
    Sent /\ resp.decided /\ resp.persist = "ok" => Len(logged) = 1

-----------------------------------------------------------------------------
(* Claims about the key quota, under QuotaSpec *)

\* C20: in every reachable state each user with a subscription has at most
\* maxApiKeys active keys, maxApiKeys being that of the tier of the user's
\* subscription.
C20_KeysWithinQuota ==
    \A u \in Users :
        getUserSubscription(u) # <<>> =>
            getKeyCount(u) <= TIER_LIMITS[subscriptions[getUserSubscription(u)[1]].tier].maxApiKeys

\* The subscription records of user u that are active or trialing
ActiveSubscriptions(u) ==
    {s \in SubIds : subscriptions[s].user_id = u
                     /\ subscriptions[s].status \in {"active", "trialing"}}

\* C21: in every reachable state each user has at most one subscription
\* record whose status is active or trialing.
C21_OneActiveSubscription ==
    \A u \in Users : Cardinality(ActiveSubscriptions(u)) <= 1

====
